---- MODULE Spec2Model ----
(***************************************************************************)
(* Twitch shoutout API (src/index.js, first program of the file: the       *)
(* "proper game detection" server, lines 1-308).                           *)
(*                                                                         *)
(* JavaScript strings are sequences of one-character strings, so that      *)
(* trim, startsWith, the username regular expression, toLowerCase,         *)
(* includes, the duration regular expression and template interpolation    *)
(* are computed character by character.  null and undefined are the        *)
(* one-element sequences Null and Undefined, whose element is not a        *)
(* character.  "T | null" objects (data[0] || null) are sequences of       *)
(* length at most one: <<>> is null, <<rec>> is the object.                *)
(***************************************************************************)
EXTENDS Integers, Sequences, FiniteSets, TLC

(***************************************************************************)
(* Bounds of the model                                                     *)
(***************************************************************************)
NumReq == 2          \* concurrent requests in the token-cache specification
MaxTicks == 3        \* clock ticks
MaxRawLen == 26      \* longest run of body characters in a raw ?user= value
MaxVideos == 2       \* longest broadcast history returned by the platform

(***************************************************************************)
(* JavaScript values                                                       *)
(***************************************************************************)
Null == <<"<null>">>
Undefined == <<"<undefined>">>

\* JS truthiness of a string-or-null value: null, undefined and '' are falsy
Truthy(v) == v # Null /\ v # Undefined /\ v # <<>>

LowerSeq == <<"a","b","c","d","e","f","g","h","i","j","k","l","m","n","o","p","q","r","s","t","u","v","w","x","y","z">>
UpperSeq == <<"A","B","C","D","E","F","G","H","I","J","K","L","M","N","O","P","Q","R","S","T","U","V","W","X","Y","Z">>
DigitSeq == <<"0","1","2","3","4","5","6","7","8","9">>

Range(s) == { s[i] : i \in DOMAIN s }

LowerChars == Range(LowerSeq)
UpperChars == Range(UpperSeq)
DigitChars == Range(DigitSeq)
WhiteSpace == {" ", "\t"}

\* String.prototype.includes
Includes(s, w) ==
  \E i \in 1..(Len(s) - Len(w) + 1) : SubSeq(s, i, i + Len(w) - 1) = w

\* String.prototype.startsWith
StartsWith(s, w) == Len(s) >= Len(w) /\ SubSeq(s, 1, Len(w)) = w

\* String.prototype.toLowerCase (ASCII)
LowerChar(c) ==
  IF c \in UpperChars
  THEN LowerSeq[CHOOSE i \in DOMAIN UpperSeq : UpperSeq[i] = c]
  ELSE c

ToLowerCase(s) == [i \in DOMAIN s |-> LowerChar(s[i])]

\* String.prototype.trim
Trim(s) ==
  LET keep == { i \in DOMAIN s : s[i] \notin WhiteSpace }
  IN IF keep = {} THEN <<>>
     ELSE SubSeq(s, CHOOSE i \in keep : \A j \in keep : i <= j,
                    CHOOSE i \in keep : \A j \in keep : i >= j)

\* parseInt of a non-empty run of decimal digits
DigitVal(c) == (CHOOSE i \in DOMAIN DigitSeq : DigitSeq[i] = c) - 1

RECURSIVE ParseInt(_)
ParseInt(s) ==
  IF s = <<>> THEN 0
  ELSE 10 * ParseInt(SubSeq(s, 1, Len(s) - 1)) + DigitVal(s[Len(s)])

RECURSIVE Concat(_)
Concat(parts) == IF parts = <<>> THEN <<>> ELSE Head(parts) \o Concat(Tail(parts))

Rep(c, n) == [i \in 1..n |-> c]

(***************************************************************************)
(* String literals of the program                                          *)
(***************************************************************************)
MsgProvide == <<"P","l","e","a","s","e"," ","p","r","o","v","i","d","e"," ","a"," ","u","s","e","r","n","a","m","e"," ","w","i","t","h"," ","?","u","s","e","r","=","U","S","E","R","N","A","M","E">>
MsgInvalid == <<"I","n","v","a","l","i","d"," ","u","s","e","r","n","a","m","e"," ","f","o","r","m","a","t","."," ","T","w","i","t","c","h"," ","u","s","e","r","n","a","m","e","s"," ","m","u","s","t"," ","b","e"," ","4","-","2","5"," ","c","h","a","r","a","c","t","e","r","s"," ","a","n","d"," ","c","o","n","t","a","i","n"," ","o","n","l","y"," ","l","e","t","t","e","r","s",","," ","n","u","m","b","e","r","s",","," ","a","n","d"," ","u","n","d","e","r","s","c","o","r","e","s",".">>
\* the body of the health check, by its status field
HealthBody == <<"{","s","t","a","t","u","s",":","o","k","}">>

S_User == <<"U","s","e","r"," ","\"">>
S_NotFound == <<"\""," ","n","o","t"," ","f","o","u","n","d"," ","o","n"," ","T","w","i","t","c","h","."," ","P","l","e","a","s","e"," ","c","h","e","c","k"," ","t","h","e"," ","u","s","e","r","n","a","m","e"," ","a","n","d"," ","t","r","y"," ","a","g","a","i","n",".">>
S_CheckOut == <<"C","h","e","c","k"," ","o","u","t"," ">>
S_Playing == <<","," ","t","h","e","y"," ","a","r","e"," ","p","l","a","y","i","n","g"," ">>
S_At == <<" ","a","t"," ">>
S_Url == <<"h","t","t","p","s",":","/","/","t","w","i","t","c","h",".","t","v","/">>
S_Bang == <<"!">>
S_Gaming == <<","," ","g","r","e","a","t"," ","g","a","m","i","n","g"," ","c","o","n","t","e","n","t"," ","a","t"," ">>
JustChatting == <<"J","u","s","t"," ","C","h","a","t","t","i","n","g">>
Games == <<"g","a","m","e","s">>
Archive == <<"a","r","c","h","i","v","e">>

skipWords ==
  << <<"r","e","a","c","t">>, <<"i","r","l">>, <<"c","h","a","t">>, <<"t","a","l","k">>,
     <<"p","o","d","c","a","s","t">>, <<"i","n","t","e","r","v","i","e","w">>,
     <<"m","u","s","i","c">> >>

(***************************************************************************)
(* Username clean-up and validation of the main route                      *)
(***************************************************************************)
UserMinLen == 4
UserMaxLen == 25

\* username.trim(); if (username.startsWith('@')) username = username.substring(1)
CleanUsername(raw) ==
  LET t == Trim(raw)
  IN IF StartsWith(t, <<"@">>) THEN SubSeq(t, 2, Len(t)) ELSE t

UsernamePatternAnyLength(u) ==
  \A i \in DOMAIN u : u[i] \in LowerChars \cup UpperChars \cup DigitChars \cup {"_"}

\* /^[a-zA-Z0-9_]{4,25}$/.test(username)
UsernamePattern(u) ==
  /\ Len(u) >= UserMinLen
  /\ Len(u) <= UserMaxLen
  /\ \A i \in DOMAIN u : u[i] \in LowerChars \cup UpperChars \cup DigitChars \cup {"_"}

(***************************************************************************)
(* Step 3 of getLastPlayedGame: the scan of the archived broadcasts        *)
(***************************************************************************)
MinMinutes == 30

\* first index at which "PT" occurs, 0 when the pattern does not match
DurationMatch(d) ==
  LET hits == { i \in 1..(Len(d) - 1) : d[i] = "P" /\ d[i + 1] = "T" }
  IN IF hits = {} THEN 0 ELSE CHOOSE i \in hits : \A j \in hits : i <= j

\* first position from i on that does not hold a digit
DigitsEnd(d, i) ==
  LET stops == { j \in i..(Len(d) + 1) : j = Len(d) + 1 \/ d[j] \notin DigitChars }
  IN CHOOSE j \in stops : \A k \in stops : j <= k

\* one optional group (?:(\d+)X)? tried at position i
DurationGroup(d, i, unit) ==
  LET j == DigitsEnd(d, i)
  IN IF j > i /\ j <= Len(d) /\ d[j] = unit
     THEN [val |-> ParseInt(SubSeq(d, i, j - 1)), next |-> j + 1]
     ELSE [val |-> 0, next |-> i]

\* hours * 60 + minutes of the matched groups; the seconds group is not used
TotalMinutes(d) ==
  LET p == DurationMatch(d) + 2
      h == DurationGroup(d, p, "H")
      m == DurationGroup(d, h.next, "M")
  IN h.val * 60 + m.val

LongEnough(totalMinutes) == totalMinutes > MinMinutes

hasSkipWordNever(title) == FALSE

hasSkipWord(title) == \E k \in DOMAIN skipWords : Includes(title, skipWords[k])

\* body of the for loop for one video: TRUE when the loop returns "games"
VideoQualifies(video) ==
  /\ video.type = Archive
  /\ Truthy(video.duration)
  /\ DurationMatch(video.duration) # 0
  /\ LongEnough(TotalMinutes(video.duration))
  /\ ~hasSkipWord(ToLowerCase(video.title))

ScanVideosTitle(videos) ==
  LET hits == { i \in DOMAIN videos : VideoQualifies(videos[i]) }
  IN IF hits = {} THEN Null ELSE videos[CHOOSE i \in hits : \A j \in hits : i <= j].title

RECURSIVE ScanVideos(_)
ScanVideos(videos) ==
  IF videos = <<>> THEN Null
  ELSE IF VideoQualifies(Head(videos)) THEN Games
  ELSE ScanVideos(Tail(videos))

(***************************************************************************)
(* Message of the main route                                               *)
(***************************************************************************)
NotFoundMessage(username) == Concat(<<S_User, username, S_NotFound>>)

FallbackMessageNoUrl(username) == Concat(<<S_CheckOut, username, S_Bang>>)

FallbackMessage(username) ==
  Concat(<<S_CheckOut, username, S_At, S_Url, username, S_Bang>>)

ShoutoutMessage(username, game) ==
  IF Truthy(game) /\ game # Games
  THEN Concat(<<S_CheckOut, username, S_Playing, game, S_At, S_Url, username, S_Bang>>)
  ELSE IF game = Games
  THEN Concat(<<S_CheckOut, username, S_Gaming, S_Url, username, S_Bang>>)
  ELSE FallbackMessage(username)

(***************************************************************************)
(* State                                                                   *)
(***************************************************************************)
VARIABLES
  now,          \* Date.now(), in milliseconds
  configured,   \* TWITCH_CLIENT_ID and TWITCH_CLIENT_SECRET are both set
  twitchToken,  \* cached bearer token
  tokenExpiry,  \* cached expiry, milliseconds, or NaN
  idRequests,   \* requests issued to id.twitch.tv/oauth2/token so far
  req           \* the main-route requests, one record per request

vars == <<now, configured, twitchToken, tokenExpiry, idRequests, req>>

TickMs == 30 * 1000
MarginMs == 60000
MsPerSecond == 1000

\* NaN (Date.now() + undefined * 1000 - 60000): no number compares with it
NaN == 0 - 1000000000

TokA == <<"t","A">>
TokB == <<"t","B">>

Steps == {"users", "streams", "channels", "videos"}

IdleRequest ==
  [pc |-> "idle", step |-> "none", raw |-> <<>>, username |-> <<>>,
   bearer |-> Null, issued |-> FALSE, called |-> {}, failed |-> {},
   user |-> <<>>, stream |-> <<>>, channel |-> <<>>, videos |-> <<>>,
   from |-> "none", game |-> Null, live |-> FALSE, response |-> <<>>, sent |-> 0]

(***************************************************************************)
(* Token cache                                                             *)
(***************************************************************************)
\* twitchToken && Date.now() < tokenExpiry, with a strict comparison
CacheFreshInclusive(tok, t, exp) == Truthy(tok) /\ exp # NaN /\ t <= exp

CacheFresh(tok, t, exp) == Truthy(tok) /\ exp # NaN /\ t < exp

TokenValid == CacheFresh(twitchToken, now, tokenExpiry)

\* Date.now() + (response.expires_in * 1000) - 60000
ExpiryNoMargin(t, out) ==
  IF out.has_expires_in THEN t + out.expires_in * MsPerSecond ELSE NaN

ExpiryOf(t, out) ==
  IF out.has_expires_in THEN t + out.expires_in * MsPerSecond - MarginMs ELSE NaN

\* the 'end' handler of the token request rejects: transport error, JSON.parse
\* throws, or the body parses to null so that response.access_token throws
TokenRejects(out) == out.kind \in {"error", "badjson"}

(***************************************************************************)
(* Fail-soft upstream client                                               *)
(***************************************************************************)
\* response.data[0] || null, and null from the catch block
FirstOrNull(out) ==
  IF out.kind = "ok" /\ out.data # <<>> THEN <<out.data[1]>> ELSE <<>>

\* response.data || [], and [] from the catch block
ListOrEmpty(out) == IF out.kind = "ok" THEN out.data ELSE <<>>

\* what an upstream-client function hands to its caller: a value or an exception
Returned(v) == [threw |-> FALSE, val |-> v]
Threw == [threw |-> TRUE, val |-> <<>>]

ClientReturnNoCatch(step, out) ==
  IF out.kind = "ok"
  THEN Returned(IF step = "videos" THEN ListOrEmpty(out) ELSE FirstOrNull(out))
  ELSE Threw

\* try { const response = await makeApiRequest(...); return ... } catch { return null / [] }
ClientReturn(step, out) ==
  Returned(IF step = "videos" THEN ListOrEmpty(out) ELSE FirstOrNull(out))

makeApiRequestNoConfigCheck(q, step, onThrow) ==
  IF TokenValid
  THEN [q EXCEPT !.pc = "api", !.step = step, !.bearer = twitchToken,
                 !.called = @ \cup {step}]
  ELSE [q EXCEPT !.pc = "token", !.step = step, !.bearer = Null, !.issued = TRUE]

\* makeApiRequest up to its first suspension: getTwitchToken returns the
\* cached token and the GET is issued, or getTwitchToken throws the
\* configuration error (the caller's catch continues with onThrow), or the
\* token request is issued.
makeApiRequest(q, step, onThrow) ==
  IF TokenValid
  THEN [q EXCEPT !.pc = "api", !.step = step, !.bearer = twitchToken,
                 !.called = @ \cup {step}]
  ELSE IF ~configured
  THEN onThrow
  ELSE [q EXCEPT !.pc = "token", !.step = step, !.bearer = Null, !.issued = TRUE]

(***************************************************************************)
(* Main route and getLastPlayedGame, from the last step to the first       *)
(***************************************************************************)
Send(q, message) == [q EXCEPT !.pc = "done", !.step = "none", !.bearer = Null,
                              !.response = message, !.sent = @ + 1]

SendShoutoutAndFallback(q, game, from) ==
  Send(Send([q EXCEPT !.game = game, !.from = from],
            ShoutoutMessage(q.username, game)),
       FallbackMessage(q.username))

\* res.send(message) at the end of the try block
SendShoutout(q, game, from) ==
  Send([q EXCEPT !.game = game, !.from = from],
       ShoutoutMessage(q.username, game))

\* catch block of getLastPlayedGame: return null
ResolverCatch(q) == SendShoutout(q, Null, "caught")

\* catch block of the route: the fallback sentence
RouteCatch(q) == Send([q EXCEPT !.from = "fallback"], FallbackMessage(q.username))

Failed == [kind |-> "error", data |-> <<>>]

\* the request with the lookup of step noted as failed unless out is an answer
NoteOutcome(q, step, out) ==
  [q EXCEPT !.failed = IF out.kind = "ok" THEN @ ELSE @ \cup {step}]

AfterVideos(q, videos) ==
  SendShoutout([q EXCEPT !.videos = videos], ScanVideos(videos), "step3")

\* the call of getRecentVideos completes with out: getLastPlayedGame goes on
\* with the value returned, or its catch block runs
DeliverVideos(q, out) ==
  LET res == ClientReturn("videos", out)
  IN IF res.threw THEN ResolverCatch(NoteOutcome(q, "videos", out))
     ELSE AfterVideos(NoteOutcome(q, "videos", out), res.val)

getRecentVideos(q) ==
  makeApiRequest(q, "videos", DeliverVideos(q, Failed))

\* x && x.game_name && x.game_name !== 'Just Chatting'
HasGame(x) ==
  /\ x # <<>>
  /\ Truthy(x[1].game_name)
  /\ x[1].game_name # JustChatting

AfterChannelNoShortCircuit(q, channelInfo) ==
  getRecentVideos([q EXCEPT !.channel = channelInfo])

AfterChannel(q, channelInfo) ==
  IF HasGame(channelInfo)
  THEN SendShoutout([q EXCEPT !.channel = channelInfo],
                    channelInfo[1].game_name, "step2")
  ELSE getRecentVideos([q EXCEPT !.channel = channelInfo])

DeliverChannel(q, out) ==
  LET res == ClientReturn("channels", out)
  IN IF res.threw THEN ResolverCatch(NoteOutcome(q, "channels", out))
     ELSE AfterChannel(NoteOutcome(q, "channels", out), res.val)

getChannelInfo(q) == makeApiRequest(q, "channels", DeliverChannel(q, Failed))

AfterStreamNoShortCircuit(q, stream) ==
  getChannelInfo([q EXCEPT !.stream = stream])

AfterStream(q, stream) ==
  IF HasGame(stream)
  THEN SendShoutout([q EXCEPT !.stream = stream], stream[1].game_name, "step1")
  ELSE getChannelInfo([q EXCEPT !.stream = stream])

DeliverStream(q, out) ==
  LET res == ClientReturn("streams", out)
  IN IF res.threw THEN ResolverCatch(NoteOutcome(q, "streams", out))
     ELSE AfterStream(NoteOutcome(q, "streams", out), res.val)

getCurrentStream(q) == makeApiRequest(q, "streams", DeliverStream(q, Failed))

AfterUserNoCheck(q, user) == getCurrentStream([q EXCEPT !.user = user])

AfterUser(q, user) ==
  IF user = <<>>
  THEN Send(q, NotFoundMessage(q.username))
  ELSE getCurrentStream([q EXCEPT !.user = user])

\* the call of getTwitchUser completes with out: the route goes on with the
\* value returned, or its catch block runs
DeliverUser(q, out) ==
  LET res == ClientReturn("users", out)
  IN IF res.threw THEN RouteCatch(NoteOutcome(q, "users", out))
     ELSE AfterUser(NoteOutcome(q, "users", out), res.val)

getTwitchUser(q) == makeApiRequest(q, "users", DeliverUser(q, Failed))

\* continuation of the request when the call of the current step yields result
Resume(q, out) ==
  CASE q.step = "users"    -> DeliverUser(q, out)
    [] q.step = "streams"  -> DeliverStream(q, out)
    [] q.step = "channels" -> DeliverChannel(q, out)
    [] q.step = "videos"   -> DeliverVideos(q, out)

RouteNoEmptyCheck(q, raw) ==
  LET username == CleanUsername(raw)
      q1 == [q EXCEPT !.raw = raw, !.username = username]
  IN IF ~UsernamePattern(username) THEN Send(q1, MsgInvalid)
     ELSE getTwitchUser(q1)

\* app.get('/') up to its first suspension
Route(q, raw) ==
  LET username == CleanUsername(raw)
      q1 == [q EXCEPT !.raw = raw, !.username = username]
  IN IF username = <<>> THEN Send(q1, MsgProvide)
     ELSE IF ~UsernamePattern(username) THEN Send(q1, MsgInvalid)
     ELSE getTwitchUser(q1)

(***************************************************************************)
(* The enhanced variant (part_000): message variations and its route       *)
(***************************************************************************)
commonGames ==
  << <<"V","a","l","o","r","a","n","t">>,
     <<"L","e","a","g","u","e"," ","o","f"," ","L","e","g","e","n","d","s">>,
     <<"F","o","r","t","n","i","t","e">>,
     <<"M","i","n","e","c","r","a","f","t">>,
     <<"A","m","o","n","g"," ","U","s">>,
     <<"C","a","l","l"," ","o","f"," ","D","u","t","y">>,
     <<"A","p","e","x"," ","L","e","g","e","n","d","s">>,
     <<"C","o","u","n","t","e","r","-","S","t","r","i","k","e">>,
     <<"O","v","e","r","w","a","t","c","h">>,
     <<"W","o","r","l","d"," ","o","f"," ","W","a","r","c","r","a","f","t">>,
     <<"R","o","c","k","e","t"," ","L","e","a","g","u","e">>,
     <<"F","a","l","l"," ","G","u","y","s">>,
     <<"G","T","A">>,
     <<"D","e","a","d"," ","b","y"," ","D","a","y","l","i","g","h","t">>,
     <<"E","s","c","a","p","e"," ","f","r","o","m"," ","T","a","r","k","o","v">> >>

\* the first name of commonGames that the lower-cased title includes, or null
TitleGame(title) ==
  LET hits == { i \in DOMAIN commonGames :
                  Includes(ToLowerCase(title), ToLowerCase(commonGames[i])) }
  IN IF hits = {} THEN Null
     ELSE commonGames[CHOOSE i \in hits : \A j \in hits : i <= j]

\* videos.length > 0, recentVideo = videos[0], recentVideo.title
RecentGame(videos) ==
  IF Len(videos) > 0 /\ Truthy(videos[1].title) THEN TitleGame(videos[1].title)
  ELSE Null

baseMessages(username) ==
  << <<"G","o"," ","c","h","e","c","k"," ","o","u","t"," ">> \o username,
     <<"S","h","o","w"," ","s","o","m","e"," ","l","o","v","e"," ","t","o"," ">> \o username,
     <<"G","i","v","e"," ">> \o username \o <<" ","a"," ","f","o","l","l","o","w">>,
     <<"C","h","e","c","k"," ","o","u","t"," ","t","h","e"," ","a","m","a","z","i","n","g"," ">> \o username,
     <<"S","u","p","p","o","r","t"," ">> \o username >>

liveMessages(baseMessage, game) ==
  << Concat(<<baseMessage, <<","," ","t","h","e","y","'","r","e"," ","c","u","r","r","e","n","t","l","y"," ","l","i","v","e"," ","p","l","a","y","i","n","g"," ">>, game, S_Bang>>),
     Concat(<<baseMessage, <<" ","-"," ","t","h","e","y","'","r","e"," ","s","t","r","e","a","m","i","n","g"," ">>, game, <<" ","r","i","g","h","t"," ","n","o","w","!">>>>),
     Concat(<<baseMessage, <<","," ","l","i","v","e"," ","n","o","w"," ","w","i","t","h"," ">>, game, S_Bang>>) >>

recentMessages(baseMessage, game) ==
  << Concat(<<baseMessage, <<","," ","t","h","e","y"," ","r","e","c","e","n","t","l","y"," ","p","l","a","y","e","d"," ">>, game, S_Bang>>),
     Concat(<<baseMessage, <<","," ","c","h","e","c","k"," ","o","u","t"," ","t","h","e","i","r"," ">>, game, <<" ","c","o","n","t","e","n","t","!">>>>),
     Concat(<<baseMessage, <<" ","-"," ","g","r","e","a","t"," ">>, game, <<" ","s","t","r","e","a","m","e","r","!">>>>) >>

S_Creator == <<","," ","g","r","e","a","t"," ","c","o","n","t","e","n","t"," ","c","r","e","a","t","o","r","!">>

\* the values Math.floor(Math.random() * n) takes for the three lists
NumBase == 5
NumVariant == 3
NumFallback == 3
Randoms == [base : 1..NumBase, variant : 1..NumVariant, fallback : 1..NumFallback]

getRandomMessageIgnoresLive(username, game, isLive, rnd) ==
  LET baseMessage == baseMessages(username)[rnd.base]
  IN IF Truthy(game) THEN liveMessages(baseMessage, game)[rnd.variant]
     ELSE baseMessage \o S_Creator

getRandomMessage(username, game, isLive, rnd) ==
  LET baseMessage == baseMessages(username)[rnd.base]
  IN IF isLive /\ Truthy(game) THEN liveMessages(baseMessage, game)[rnd.variant]
     ELSE IF Truthy(game) THEN recentMessages(baseMessage, game)[rnd.variant]
     ELSE baseMessage \o S_Creator

fallbacks(username) ==
  << Concat(<<S_CheckOut, username, S_At, S_Url, username, S_Bang>>),
     Concat(<<<<"S","h","o","w"," ","s","o","m","e"," ","l","o","v","e"," ","t","o"," ">>, username, S_At, S_Url, username, S_Bang>>),
     Concat(<<<<"G","i","v","e"," ">>, username, <<" ","a"," ","f","o","l","l","o","w"," ","a","t"," ">>, S_Url, username, S_Bang>>) >>

\* res.send(message + url)
SendShoutoutE(q, game, isLive, from, rnd) ==
  Send([q EXCEPT !.game = game, !.live = isLive, !.from = from],
       Concat(<<getRandomMessage(q.username, game, isLive, rnd), S_At, S_Url, q.username>>))

\* catch block of the route: one of the fallback sentences
RouteCatchE(q, rnd) ==
  Send([q EXCEPT !.from = "fallback"], fallbacks(q.username)[rnd.fallback])

ClientReturnECatchesAll(step, out) ==
  Returned(IF step = "videos" THEN ListOrEmpty(out) ELSE FirstOrNull(out))

\* the promise built after the token is returned, not awaited, from inside
\* the try block: it resolves with data[0] || null (data || [] for videos),
\* and its rejection (transport error, JSON.parse or response.data[0]
\* throwing) goes to the caller
ClientReturnE(step, out) ==
  IF out.kind = "ok" THEN Returned(IF step = "videos" THEN out.data ELSE FirstOrNull(out))
  ELSE IF out.kind = "nodata" /\ step = "videos" THEN Returned(<<>>)
  ELSE Threw

\* await getTwitchToken() throws or rejects inside the try block: null / []
TokenFailedE == Returned(<<>>)

\* the route's catch block runs for the rejected lookup of step
CaughtE(q, step, rnd) == RouteCatchE([q EXCEPT !.failed = @ \cup {step}], rnd)

AfterVideosE(q, videos, rnd) ==
  SendShoutoutE([q EXCEPT !.videos = videos], RecentGame(videos), FALSE, "videos", rnd)

DeliverVideosE(q, res, rnd) ==
  IF res.threw THEN CaughtE(q, "videos", rnd) ELSE AfterVideosE(q, res.val, rnd)

getRecentVideosE(q, rnd) ==
  makeApiRequest(q, "videos", DeliverVideosE(q, TokenFailedE, rnd))

AfterStreamE(q, stream, rnd) ==
  IF stream # <<>>
  THEN SendShoutoutE([q EXCEPT !.stream = stream], stream[1].game_name, TRUE, "stream", rnd)
  ELSE getRecentVideosE([q EXCEPT !.stream = stream], rnd)

DeliverStreamE(q, res, rnd) ==
  IF res.threw THEN CaughtE(q, "streams", rnd) ELSE AfterStreamE(q, res.val, rnd)

getCurrentStreamE(q, rnd) ==
  makeApiRequest(q, "streams", DeliverStreamE(q, TokenFailedE, rnd))

AfterUserE(q, user, rnd) ==
  IF user = <<>>
  THEN Send(q, NotFoundMessage(q.username))
  ELSE getCurrentStreamE([q EXCEPT !.user = user], rnd)

DeliverUserE(q, res, rnd) ==
  IF res.threw THEN CaughtE(q, "users", rnd) ELSE AfterUserE(q, res.val, rnd)

getTwitchUserE(q, rnd) ==
  makeApiRequest(q, "users", DeliverUserE(q, TokenFailedE, rnd))

\* continuation of the request when the lookup of the current step yields res
ResumeE(q, res, rnd) ==
  CASE q.step = "users"   -> DeliverUserE(q, res, rnd)
    [] q.step = "streams" -> DeliverStreamE(q, res, rnd)
    [] q.step = "videos"  -> DeliverVideosE(q, res, rnd)

\* app.get('/') of the enhanced variant up to its first suspension
RouteE(q, raw, rnd) ==
  LET username == CleanUsername(raw)
      q1 == [q EXCEPT !.raw = raw, !.username = username]
  IN IF username = <<>> THEN Send(q1, MsgProvide)
     ELSE IF ~UsernamePattern(username) THEN Send(q1, MsgInvalid)
     ELSE getTwitchUserE(q1, rnd)

(***************************************************************************)
(* Actions                                                                 *)
(***************************************************************************)
\* the request record after a handler step, and the token requests it issued
Settle(r, q) ==
  /\ req' = [req EXCEPT ![r] = [q EXCEPT !.issued = FALSE]]
  /\ idRequests' = idRequests + (IF q.issued THEN 1 ELSE 0)

\* a GET / request arrives
Request(r, raw) ==
  /\ req[r].pc = "idle"
  /\ Settle(r, Route(req[r], raw))
  /\ UNCHANGED <<now, configured, twitchToken, tokenExpiry>>

\* a GET /health request arrives: res.json({status: 'ok', ...}), no upstream call
Health(r) ==
  /\ req[r].pc = "idle"
  /\ Settle(r, Send(req[r], HealthBody))
  /\ UNCHANGED <<now, configured, twitchToken, tokenExpiry>>

TokenReplyTokenOnly(r, out) ==
  /\ req[r].pc = "token"
  /\ IF TokenRejects(out)
     THEN /\ Settle(r, Resume(req[r], Failed))
          /\ UNCHANGED <<twitchToken, tokenExpiry>>
     ELSE /\ twitchToken' = out.access_token
          /\ tokenExpiry' = tokenExpiry
          /\ Settle(r, [req[r] EXCEPT !.pc = "api",
                                      !.bearer = out.access_token,
                                      !.called = @ \cup {req[r].step}])
  /\ UNCHANGED <<now, configured>>

\* the response of a token request completes (res.on('end')) or it errors
TokenReply(r, out) ==
  /\ req[r].pc = "token"
  /\ IF TokenRejects(out)
     THEN /\ Settle(r, Resume(req[r], Failed))
          /\ UNCHANGED <<twitchToken, tokenExpiry>>
     ELSE /\ twitchToken' = out.access_token
          /\ tokenExpiry' = ExpiryOf(now, out)
          /\ Settle(r, [req[r] EXCEPT !.pc = "api",
                                      !.bearer = out.access_token,
                                      !.called = @ \cup {req[r].step}])
  /\ UNCHANGED <<now, configured>>

\* the response of a platform API request completes or it errors
ApiReply(r, out) ==
  /\ req[r].pc = "api"
  /\ Settle(r, Resume(req[r], out))
  /\ UNCHANGED <<now, configured, twitchToken, tokenExpiry>>

\* time passes
Tick ==
  /\ now < MaxTicks * TickMs
  /\ now' = now + TickMs
  /\ UNCHANGED <<configured, twitchToken, tokenExpiry, idRequests, req>>

\* the enhanced variant: a GET / request arrives
RequestE(r, raw, rnd) ==
  /\ req[r].pc = "idle"
  /\ Settle(r, RouteE(req[r], raw, rnd))
  /\ UNCHANGED <<now, configured, twitchToken, tokenExpiry>>

\* the enhanced variant: the token request completes or it errors
TokenReplyE(r, out, rnd) ==
  /\ req[r].pc = "token"
  /\ IF TokenRejects(out)
     THEN /\ Settle(r, ResumeE(req[r], TokenFailedE, rnd))
          /\ UNCHANGED <<twitchToken, tokenExpiry>>
     ELSE /\ twitchToken' = out.access_token
          /\ tokenExpiry' = ExpiryOf(now, out)
          /\ Settle(r, [req[r] EXCEPT !.pc = "api",
                                      !.bearer = out.access_token,
                                      !.called = @ \cup {req[r].step}])
  /\ UNCHANGED <<now, configured>>

\* the enhanced variant: a platform API request completes or it errors
ApiReplyE(r, out, rnd) ==
  /\ req[r].pc = "api"
  /\ Settle(r, ResumeE(req[r], ClientReturnE(req[r].step, out), rnd))
  /\ UNCHANGED <<now, configured, twitchToken, tokenExpiry>>

(***************************************************************************)
(* Inputs: what clients send and what the platform answers                 *)
(***************************************************************************)
Ninja == <<"n","i","n","j","a">>
Shroud == <<"s","h","r","o","u","d">>
Valorant == <<"V","a","l","o","r","a","n","t">>
Highlight == <<"h","i","g","h","l","i","g","h","t">>
LateNightMinecraft == <<"L","a","t","e"," ","n","i","g","h","t"," ","M","i","n","e","c","r","a","f","t"," ","b","u","i","l","d">>
ChattingWithFriends == <<"J","u","s","t"," ","c","h","a","t","t","i","n","g"," ","w","i","t","h"," ","f","r","i","e","n","d","s">>
RankedGrind == <<"R","a","n","k","e","d"," ","g","r","i","n","d">>
IrlWalk == <<"I","R","L"," ","w","a","l","k">>
PT15M == <<"P","T","1","5","M">>
PT29M59S == <<"P","T","2","9","M","5","9","S">>
PT30M == <<"P","T","3","0","M">>
PT30M30S == <<"P","T","3","0","M","3","0","S">>
PT30M59S == <<"P","T","3","0","M","5","9","S">>
PT45M == <<"P","T","4","5","M">>
PT1H == <<"P","T","1","H">>
PT2H5M == <<"P","T","2","H","5","M">>
HMS == <<"1","h","2","m","3","s">>

\* expires_in values, seconds: the token is stale at once, or fresh for one tick
ExpiresIn == {60, 90}

TokenFailures ==
  { [kind |-> k, access_token |-> Undefined, has_expires_in |-> FALSE, expires_in |-> 0]
      : k \in {"error", "badjson"} }

\* a body that parses to an object without access_token and/or expires_in,
\* such as {"status":400,"message":"invalid client"}
TokenMalformed ==
  { [kind |-> "malformed", access_token |-> Undefined, has_expires_in |-> FALSE, expires_in |-> 0],
    [kind |-> "malformed", access_token |-> TokB, has_expires_in |-> FALSE, expires_in |-> 0],
    [kind |-> "malformed", access_token |-> Undefined, has_expires_in |-> TRUE, expires_in |-> 90] }

TokenSuccesses(toks) ==
  { [kind |-> "ok", access_token |-> t, has_expires_in |-> TRUE, expires_in |-> e]
      : t \in toks, e \in ExpiresIn }

TokenOutcomes == TokenFailures \cup TokenMalformed \cup TokenSuccesses({TokA, TokB})

ApiFailures == { [kind |-> k, data |-> <<>>] : k \in {"error", "badjson", "nodata"} }

Ok(d) == [kind |-> "ok", data |-> d]

Categories == {Valorant, JustChatting, Games, <<>>, Undefined}

UserData == { <<>>, <<[id |-> 1]>> }
GameData(cats) == { <<>> } \cup { <<[game_name |-> c]>> : c \in cats }

Video(t, d, ti) == [type |-> t, duration |-> d, title |-> ti]

VideoRecs ==
  { Video(Archive, PT45M, LateNightMinecraft),
    Video(Archive, PT15M, LateNightMinecraft),
    Video(Archive, PT45M, ChattingWithFriends),
    Video(Archive, PT2H5M, IrlWalk),
    Video(Archive, PT29M59S, RankedGrind),
    Video(Archive, PT30M, RankedGrind),
    Video(Archive, PT30M30S, RankedGrind),
    Video(Archive, PT30M59S, RankedGrind),
    Video(Archive, HMS, RankedGrind),
    Video(Archive, <<>>, RankedGrind),
    Video(Highlight, PT1H, RankedGrind) }

SeqsUpTo(S, n) == UNION { [1..k -> S] : k \in 0..n }

VideoLists == SeqsUpTo(VideoRecs, MaxVideos)

\* raw values of ?user=: optional blanks and '@' signs, a run of one body
\* character, an optional trailing blank or punctuation mark
RawPrefixes == { <<>>, <<" ">>, <<"@">>, <<" ","@">>, <<"@","@">>, <<"@"," ">> }
RawSuffixes == { <<>>, <<" ">>, <<"!">> }
RawBodyChars == { "a", "Q", "7", "_", "-" }

RawUsers ==
  { pre \o Rep(c, n) \o suf :
      pre \in RawPrefixes, c \in RawBodyChars, n \in 0..MaxRawLen, suf \in RawSuffixes }

(***************************************************************************)
(* Specifications                                                          *)
(***************************************************************************)
InitWith(n) ==
  /\ now = 0
  /\ configured \in BOOLEAN
  /\ twitchToken = Null
  /\ tokenExpiry = 0
  /\ idRequests = 0
  /\ req = [r \in 1..n |-> IdleRequest]

\* answers of the platform in the concurrent specification: the resolver
\* ends at the stream, or at the channel info when the token request of the
\* stream lookup failed
ApiOutcomesShared(step) ==
  CASE step = "users"    -> { Ok(<<>>), Ok(<<[id |-> 1]>>) }
    [] step = "streams"  -> { Ok(<<[game_name |-> Valorant]>>) }
    [] step = "channels" -> { Ok(<<[game_name |-> Valorant]>>) }
    [] OTHER -> {}

TokenOutcomesShared ==
  { [kind |-> "error", access_token |-> Undefined, has_expires_in |-> FALSE, expires_in |-> 0],
    [kind |-> "ok", access_token |-> TokA, has_expires_in |-> TRUE, expires_in |-> 90],
    [kind |-> "ok", access_token |-> TokB, has_expires_in |-> TRUE, expires_in |-> 60] }

ApiOutcomesSmall(step) ==
  {[kind |-> "error", data |-> <<>>]} \cup
  CASE step = "users"    -> { Ok(d) : d \in UserData }
    [] step = "streams"  -> { Ok(d) : d \in GameData({Valorant}) }
    [] step = "channels" -> { Ok(d) : d \in GameData({JustChatting}) }
    [] step = "videos"   -> { Ok(<<>>), Ok(<<Video(Archive, PT45M, LateNightMinecraft)>>) }
    [] OTHER -> {}

ApiOutcomes(step) ==
  ApiFailures \cup
  CASE step = "users"    -> { Ok(d) : d \in UserData }
    [] step = "streams"  -> { Ok(d) : d \in GameData(Categories) }
    [] step = "channels" -> { Ok(d) : d \in GameData(Categories) }
    [] step = "videos"   -> { Ok(d) : d \in VideoLists }
    [] OTHER -> {}

\* concurrent requests sharing the token cache
Init == InitWith(NumReq)

Next ==
  \/ \E r \in DOMAIN req : Request(r, Ninja)
  \/ \E r \in DOMAIN req, out \in TokenOutcomesShared : TokenReply(r, out)
  \/ \E r \in DOMAIN req : \E out \in ApiOutcomesShared(req[r].step) : ApiReply(r, out)
  \/ Tick

Spec == Init /\ [][Next]_vars

\* the token request fails, or it yields a token that outlives the request
TokenOutcomesResolver ==
  { [kind |-> "error", access_token |-> Undefined, has_expires_in |-> FALSE, expires_in |-> 0],
    [kind |-> "ok", access_token |-> TokA, has_expires_in |-> TRUE, expires_in |-> 90] }

\* one request, every raw username
InitRoute == InitWith(1)

NextRoute ==
  \/ \E raw \in RawUsers : Request(1, raw)
  \/ \E out \in TokenOutcomesResolver : TokenReply(1, out)
  \/ \E out \in ApiOutcomesSmall(req[1].step) : ApiReply(1, out)

SpecRoute == InitRoute /\ [][NextRoute]_vars

\* one request of a valid username, every platform answer
InitResolver == InitWith(1)

NextResolver ==
  \/ \E raw \in {Shroud} : Request(1, raw)
  \/ \E out \in TokenOutcomesResolver : TokenReply(1, out)
  \/ \E out \in ApiOutcomes(req[1].step) : ApiReply(1, out)

SpecResolver == InitResolver /\ [][NextResolver]_vars

\* one request, every answer of the identity endpoint, a running clock
InitCache == InitWith(1)

NextCache ==
  \/ \E raw \in {Ninja} : Request(1, raw)
  \/ Health(1)
  \/ \E out \in TokenOutcomes : TokenReply(1, out)
  \/ \E out \in ApiOutcomesSmall(req[1].step) : ApiReply(1, out)
  \/ Tick

SpecCache == InitCache /\ [][NextCache]_vars

\* the enhanced variant: one request of a valid username, every platform answer
InitEnhanced == InitWith(1)

ApiOutcomesE(step) ==
  ApiFailures \cup
  CASE step = "users"    -> { Ok(d) : d \in UserData }
    [] step = "streams"  -> { Ok(d) : d \in GameData(Categories) }
    [] step = "videos"   -> { Ok(d) : d \in VideoLists }
    [] OTHER -> {}

NextEnhanced ==
  \/ \E raw \in {Shroud, Ninja, <<"@","a","b">>, <<" ">>}, rnd \in Randoms :
       RequestE(1, raw, rnd)
  \/ \E out \in TokenOutcomesResolver, rnd \in Randoms : TokenReplyE(1, out, rnd)
  \/ \E rnd \in Randoms : \E out \in ApiOutcomesE(req[1].step) : ApiReplyE(1, out, rnd)

SpecEnhanced == InitEnhanced /\ [][NextEnhanced]_vars

\* the upstream client: one request, a token that is stale as soon as it is
\* cached, so that the token request of every lookup can fail, and every
\* kind of failure of every lookup
InitClient == InitWith(1)

TokenOutcomesClient ==
  { [kind |-> k, access_token |-> Undefined, has_expires_in |-> FALSE, expires_in |-> 0]
      : k \in {"error", "badjson"} } \cup
  { [kind |-> "ok", access_token |-> TokA, has_expires_in |-> TRUE, expires_in |-> e]
      : e \in ExpiresIn }

ApiOutcomesClient(step) ==
  ApiFailures \cup
  CASE step = "users"    -> { Ok(d) : d \in UserData }
    [] step = "streams"  -> { Ok(d) : d \in GameData({Valorant, JustChatting}) }
    [] step = "channels" -> { Ok(d) : d \in GameData({Valorant, JustChatting}) }
    [] step = "videos"   ->
         { Ok(<<>>),
           Ok(<<Video(Archive, PT45M, LateNightMinecraft)>>),
           Ok(<<Video(Archive, PT15M, LateNightMinecraft),
                Video(Archive, PT45M, ChattingWithFriends)>>) }
    [] OTHER -> {}

NextClient ==
  \/ \E raw \in {Shroud, Ninja} : Request(1, raw)
  \/ \E out \in TokenOutcomesClient : TokenReply(1, out)
  \/ \E out \in ApiOutcomesClient(req[1].step) : ApiReply(1, out)

SpecClient == InitClient /\ [][NextClient]_vars

\* one request, valid or not, a running clock; every upstream request that
\* was issued completes in the end with a response or an error
InitLive == InitWith(1)

NextLive ==
  \/ \E raw \in {Ninja, <<"@","a","b">>, <<" ">>} : Request(1, raw)
  \/ \E out \in TokenOutcomes : TokenReply(1, out)
  \/ \E out \in ApiOutcomesSmall(req[1].step) : ApiReply(1, out)
  \/ Tick

UpstreamCompletes ==
  \/ \E out \in TokenOutcomes : TokenReply(1, out)
  \/ \E out \in ApiOutcomesSmall(req[1].step) : ApiReply(1, out)

SpecLive == InitLive /\ [][NextLive]_vars /\ WF_vars(UpstreamCompletes)

(***************************************************************************)
(* Token cache properties                                                  *)
(***************************************************************************)
InFlightRefreshes == { r \in DOMAIN req : req[r].pc = "token" }

\* C1: single-flight refresh: concurrent getTwitchToken calls that start
\* while no valid token is cached share one credential-exchange request, so
\* at most one request to the identity endpoint is in flight at any time.
C1_SingleFlight == Cardinality(InFlightRefreshes) <= 1

\* request r calls getTwitchToken in this step on behalf of a new lookup
BeginsCall(r) ==
  /\ req'[r].pc \in {"api", "token"}
  /\ req[r].pc \notin {"api", "token"} \/ req'[r].step # req[r].step

\* the cache holds the result of a refresh that succeeded
CacheFromSuccess == Truthy(twitchToken) /\ tokenExpiry # NaN

\* C2: a refresh that succeeds at time t with expires_in = e stores
\* expiresAt = t + e*1000 - 60000; a getTwitchToken call made before expiresAt
\* uses the cached token and issues no token request, a call made at or
\* after expiresAt issues a token request.
C2_ValidityWindow ==
  [][ /\ \A r \in DOMAIN req, out \in TokenSuccesses({TokA, TokB}) :
           TokenReply(r, out) =>
             /\ twitchToken' = out.access_token
             /\ tokenExpiry' = now + out.expires_in * 1000 - 60000
      /\ \A r \in DOMAIN req :
           (BeginsCall(r) /\ CacheFromSuccess) =>
             IF now < tokenExpiry
             THEN /\ req'[r].pc = "api"
                  /\ req'[r].bearer = twitchToken
                  /\ idRequests' = idRequests
             ELSE /\ req'[r].pc = "token"
                  /\ idRequests' = idRequests + 1 ]_vars

\* a lookup after the first one was served from the cache of the only
\* refresh so far, while another request has already been answered
C2_Witness ==
  /\ CacheFromSuccess
  /\ \E r \in DOMAIN req :
       /\ req[r].pc = "api" /\ req[r].step = "streams"
       /\ req[r].bearer = twitchToken
       /\ idRequests = 1
       /\ now < tokenExpiry
  /\ \E r \in DOMAIN req : req[r].pc = "done"

(***************************************************************************)
(* Main route properties                                                   *)
(***************************************************************************)
Done(r) == req[r].pc = "done"

\* the pattern ^[A-Za-z0-9_]{4,25}$ as the interface states it
WordChars ==
  {"a","b","c","d","e","f","g","h","i","j","k","l","m","n","o","p","q","r","s","t","u","v","w","x","y","z",
   "A","B","C","D","E","F","G","H","I","J","K","L","M","N","O","P","Q","R","S","T","U","V","W","X","Y","Z",
   "0","1","2","3","4","5","6","7","8","9","_"}

MatchesPattern(u) == Len(u) \in 4..25 /\ \A i \in DOMAIN u : u[i] \in WordChars

ChannelUrl(login) == S_Url \o login

C4_OneValidationMessage ==
  \A r \in DOMAIN req :
    (Done(r) /\ ~MatchesPattern(req[r].username)) =>
      \A raw \in RawUsers :
        ~MatchesPattern(CleanUsername(raw)) =>
          Route(IdleRequest, raw).response = req[r].response

\* C4 amended: a username that fails the pattern is answered at once with
\* one of two fixed messages: the "please provide" message when nothing is
\* left after trim and '@' strip, the "invalid format" message otherwise.
C4_TwoValidationMessages ==
  \A r \in DOMAIN req :
    (req[r].pc # "idle" /\ ~MatchesPattern(CleanUsername(req[r].raw))) =>
      /\ Done(r)
      /\ req[r].sent = 1
      /\ req[r].called = {}
      /\ req[r].response =
           IF CleanUsername(req[r].raw) = <<>> THEN MsgProvide ELSE MsgInvalid

\* a lone '@' has been answered with the "please provide" message
C4_Witness ==
  \E r \in DOMAIN req :
    /\ Done(r)
    /\ req[r].raw = <<"@">>
    /\ req[r].response = MsgProvide

\* C7: when the user lookup of a valid username U completes with an empty
\* data list, the response is exactly: User "U" not found on Twitch. Please
\* check the username and try again. -- and no stream, channel-info or
\* broadcast-history lookup is issued.
C7_UserNotFound ==
  [][ \A r \in DOMAIN req :
        (req[r].step = "users" /\ ApiReply(r, Ok(<<>>))) =>
          /\ MatchesPattern(req[r].username)
          /\ req'[r].pc = "done"
          /\ req'[r].sent = 1
          /\ req'[r].response =
               S_User \o req[r].username \o S_NotFound
          /\ req'[r].called = {"users"}
          /\ idRequests' = idRequests ]_vars

\* the user lookup was issued and the request ended with the not-found message
C7_Witness ==
  \E r \in DOMAIN req :
    /\ Done(r)
    /\ req[r].called = {"users"}
    /\ Len(req[r].username) = 4
    /\ req[r].response = S_User \o req[r].username \o S_NotFound

(***************************************************************************)
(* Category resolver properties                                            *)
(***************************************************************************)
LaterLookups == {"channels", "videos"}

\* C5 as stated: whenever the live-stream lookup returns a stream whose
\* category is not "Just Chatting" (an empty or missing category included),
\* no channel-info lookup and no broadcast-history lookup is issued.
C5_ShortCircuitAnyCategory ==
  \A r \in DOMAIN req :
    (req[r].stream # <<>> /\ req[r].stream[1].game_name # JustChatting) =>
      req[r].called \cap LaterLookups = {}

\* C5 amended: whenever the live-stream lookup returns a stream whose
\* category is non-empty and not "Just Chatting", getLastPlayedGame returns
\* that category at step 1 and issues no channel-info lookup and no
\* broadcast-history lookup.
C5_ShortCircuit ==
  \A r \in DOMAIN req :
    ( /\ req[r].stream # <<>>
      /\ req[r].stream[1].game_name \notin {<<>>, Undefined, JustChatting} ) =>
      /\ Done(r)
      /\ req[r].from = "step1"
      /\ req[r].game = req[r].stream[1].game_name
      /\ req[r].called = {"users", "streams"}

\* a live stream in category Valorant ended the resolver at step 1
C5_Witness ==
  \E r \in DOMAIN req :
    /\ Done(r)
    /\ req[r].stream = <<[game_name |-> Valorant]>>
    /\ req[r].from = "step1"
    /\ req[r].called = {"users", "streams"}

\* the denylist and the duration of a record, as the resolver's contract
\* states them
Denylist ==
  { <<"r","e","a","c","t">>, <<"i","r","l">>, <<"c","h","a","t">>, <<"t","a","l","k">>,
    <<"p","o","d","c","a","s","t">>, <<"i","n","t","e","r","v","i","e","w">>,
    <<"m","u","s","i","c">> }

TitleDenylisted(video) ==
  \E w \in Denylist : Includes(ToLowerCase(video.title), w)

IsIsoDuration(d) == Len(d) >= 2 /\ d[1] = "P" /\ d[2] = "T"

\* length in seconds of a PT#H#M#S duration
DurationSeconds(d) ==
  LET h == DurationGroup(d, 3, "H")
      m == DurationGroup(d, h.next, "M")
      sec == DurationGroup(d, m.next, "S")
  IN h.val * 3600 + m.val * 60 + sec.val

ShorterThan30Min(video) ==
  IsIsoDuration(video.duration) /\ DurationSeconds(video.duration) < 30 * 60

LongerThan30Min(video) ==
  IsIsoDuration(video.duration) /\ DurationSeconds(video.duration) > 30 * 60

Filtered(videos) ==
  SelectSeq(videos, LAMBDA v : ~ShorterThan30Min(v) /\ ~TitleDenylisted(v))

\* C6: a record shorter than 30 minutes, or whose lower-cased title contains
\* a denylist keyword, never determines the result: the result of step 3 on
\* a list equals its result on the list without those records.
C6_FilteredRecordsIgnored ==
  \A r \in DOMAIN req :
    (Done(r) /\ req[r].from = "step3") =>
      req[r].game = ScanVideos(Filtered(req[r].videos))

\* a denylisted 45-minute record came first and a later record decided
C6_Witness ==
  \E r \in DOMAIN req :
    /\ Done(r) /\ req[r].from = "step3"
    /\ Len(req[r].videos) = 2
    /\ TitleDenylisted(req[r].videos[1])
    /\ ~ShorterThan30Min(req[r].videos[1])
    /\ Len(Filtered(req[r].videos)) = 1
    /\ req[r].game = Games

\* C8: for a valid username U that exists upstream and is live with a
\* category C other than "Just Chatting", the message contains U, contains
\* C and contains https://twitch.tv/U.
C8_LiveCategoryNamed ==
  \A r \in DOMAIN req :
    ( /\ Done(r)
      /\ MatchesPattern(req[r].username)
      /\ req[r].user # <<>>
      /\ req[r].stream # <<>>
      /\ req[r].stream[1].game_name \notin {<<>>, Undefined, JustChatting} ) =>
      /\ Includes(req[r].response, req[r].username)
      /\ Includes(req[r].response, req[r].stream[1].game_name)
      /\ Includes(req[r].response, ChannelUrl(req[r].username))

\* C9: when the user is not live, ChannelInfo's category is "Just Chatting"
\* and the broadcast history holds an archive record longer than 30 minutes
\* whose title has no denylist keyword, the resolver's result is a category
\* name or "games", never null.
C9_HistoryFallback ==
  \A r \in DOMAIN req :
    ( /\ Done(r) /\ req[r].from = "step3"
      /\ req[r].stream = <<>>
      /\ req[r].channel = <<[game_name |-> JustChatting]>>
      /\ \E i \in DOMAIN req[r].videos :
           /\ req[r].videos[i].type = Archive
           /\ LongerThan30Min(req[r].videos[i])
           /\ ~TitleDenylisted(req[r].videos[i]) ) =>
      req[r].game # Null

\* C10: a credential exchange that fails or returns a malformed response
\* leaves the cached pair (twitchToken, tokenExpiry) as it was.
C10_FailedRefreshKeepsCache ==
  [][ \A r \in DOMAIN req, out \in TokenFailures \cup TokenMalformed :
        TokenReply(r, out) => UNCHANGED <<twitchToken, tokenExpiry>> ]_vars


(***************************************************************************)
(* Fail-soft upstream client                                               *)
(***************************************************************************)
\* what the claim says a lookup returns for platform answer out
SoftValue(step, out) ==
  IF out.kind # "ok" THEN <<>>
  ELSE IF step = "videos" THEN out.data
  ELSE IF out.data = <<>> THEN <<>> ELSE <<out.data[1]>>

\* in this step the caller of the lookup of step received value v from it,
\* and no catch block of a caller ran
HandedOver(r, step, v) ==
  /\ req'[r].from \notin {"caught", "fallback"}
  /\ CASE step = "users" ->
            IF v = <<>>
            THEN /\ req'[r].pc = "done"
                 /\ req'[r].response = NotFoundMessage(req[r].username)
            ELSE req'[r].user = v /\ req'[r].pc # "done"
       [] step = "streams"  -> req'[r].stream = v
       [] step = "channels" -> req'[r].channel = v
       [] step = "videos"   -> req'[r].videos = v /\ req'[r].from = "step3"

\* C11: getTwitchUser, getCurrentStream, getChannelInfo and getRecentVideos
\* always complete with a value and never with an exception: a token
\* failure, a transport failure, a JSON parse failure or a response without
\* a data list gives null (user, stream, channel) or [] (history), a
\* success gives data[0] or null, respectively the full list.
C11_FailSoft ==
  [][ \A r \in DOMAIN req :
        /\ \A out \in ApiOutcomesClient(req[r].step) :
             ApiReply(r, out) => HandedOver(r, req[r].step, SoftValue(req[r].step, out))
        /\ \A out \in TokenFailures :
             TokenReply(r, out) => HandedOver(r, req[r].step, <<>>) ]_vars

C11_Witness ==
  \E r \in DOMAIN req :
    /\ Done(r)
    /\ req[r].failed = {"streams", "channels", "videos"}
    /\ req[r].user # <<>>
    /\ req[r].from = "step3"
    /\ req[r].game = Null


\* C12: when the client id or secret is not configured, every getTwitchToken
\* call that finds no valid cached token fails with the configuration error
\* without a request to the identity endpoint, no request to the platform
\* API is ever issued, and the health check and every shoutout request still
\* produce a response.
C12_LazyConfigFailure ==
  ~configured =>
    /\ idRequests = 0
    /\ \A r \in DOMAIN req :
         /\ req[r].called = {}
         /\ req[r].pc \in {"idle", "done"}
         /\ Done(r) =>
              /\ req[r].sent = 1
              /\ \/ req[r].response = HealthBody /\ req[r].failed = {}
                 \/ /\ req[r].response = NotFoundMessage(req[r].username)
                    /\ req[r].failed = {"users"}

C12_Witness ==
  /\ ~configured
  /\ \E r \in DOMAIN req :
       /\ Done(r)
       /\ req[r].failed = {"users"}
       /\ req[r].response = NotFoundMessage(Ninja)


(***************************************************************************)
(* Messages derived from the broadcast history                             *)
(***************************************************************************)
PlayingPhrase == <<" ","p","l","a","y","i","n","g"," ">>
GamingPhrase == <<"g","r","e","a","t"," ","g","a","m","i","n","g"," ","c","o","n","t","e","n","t">>

\* the message names a game of the allowlist or quotes a title of the history
NamesFromHistory(r) ==
  \/ \E i \in DOMAIN commonGames : Includes(req[r].response, commonGames[i])
  \/ \E i \in DOMAIN req[r].videos : Includes(req[r].response, req[r].videos[i].title)

\* C13: when steps 1 and 2 are inconclusive and the category comes from the
\* titles of archived broadcasts, the message of the main route names no
\* specific game (the route has no allowlist match to name): a record that
\* passed the duration and denylist filters yields the generic gaming
\* message, never a "playing <name>" message.
C13_NoFabricatedGame ==
  \A r \in DOMAIN req :
    Done(r) /\ req[r].from = "step3" =>
      /\ ~Includes(req[r].response, PlayingPhrase)
      /\ ~NamesFromHistory(r)
      /\ req[r].game \in {Games, Null}
      /\ req[r].game = Games => Includes(req[r].response, GamingPhrase)

C13_Witness ==
  \E r \in DOMAIN req :
    /\ Done(r)
    /\ req[r].from = "step3"
    /\ req[r].game = Games
    /\ Len(req[r].videos) > 0
    /\ req[r].videos[1].title = LateNightMinecraft
    /\ Includes(req[r].response, GamingPhrase)


(***************************************************************************)
(* Total upstream failure                                                  *)
(***************************************************************************)
\* every upstream call made for request r failed: the token exchange was
\* attempted and failed, so that no lookup obtained an answer
TotalUpstreamFailure(r) ==
  /\ Done(r)
  /\ MatchesPattern(req[r].username)
  /\ idRequests > 0
  /\ req[r].called = {}
  /\ req[r].failed # {}

\* C14: for every valid username U, when every upstream call fails (token
\* exchange and all resource lookups), the main route still answers with a
\* generic shoutout sentence that references U and https://twitch.tv/U; no
\* failure propagates out of the route handler.
C14_FallbackUnderTotalFailure ==
  \A r \in DOMAIN req :
    TotalUpstreamFailure(r) =>
      /\ req[r].sent = 1
      /\ Includes(req[r].response, S_CheckOut \o req[r].username)
      /\ Includes(req[r].response, ChannelUrl(req[r].username))


(***************************************************************************)
(* Composer of the enhanced variant                                        *)
(***************************************************************************)
EndsWith(s, w) == Len(s) >= Len(w) /\ SubSeq(s, Len(s) - Len(w) + 1, Len(s)) = w

\* request r was answered with getRandomMessage(...) + url
Composed(r) == Done(r) /\ req[r].from \in {"stream", "videos"}

LivePhrases ==
  { <<"c","u","r","r","e","n","t","l","y"," ","l","i","v","e"," ","p","l","a","y","i","n","g">>,
    <<"r","i","g","h","t"," ","n","o","w","!">>,
    <<"l","i","v","e"," ","n","o","w"," ","w","i","t","h">> }

\* the names a message could carry: the categories of the platform and the allowlist
KnownNames == { c \in Categories : Truthy(c) } \cup Range(commonGames)

\* C15: whatever the random choices of base sentence and template are, the
\* message of getRandomMessage plus the appended URL is non-empty, contains
\* the login, contains the game name exactly when game is non-null, ends
\* with " at https://twitch.tv/<login>", and uses a live-now template only
\* when isLive is true; this includes game = null with isLive = false.
C15_ComposerFacts ==
  \A r \in DOMAIN req :
    Composed(r) =>
      LET m == req[r].response
          g == req[r].game
      IN /\ m # <<>>
         /\ Includes(m, req[r].username)
         /\ g \notin {Null, Undefined} => Includes(m, g)
         /\ g \in {Null, Undefined} => \A c \in KnownNames : ~Includes(m, c)
         /\ EndsWith(m, S_At \o S_Url \o req[r].username)
         /\ (\E p \in LivePhrases : Includes(m, p)) => req[r].live

C15_Witness ==
  \E r \in DOMAIN req :
    /\ Composed(r)
    /\ req[r].game = Null
    /\ ~req[r].live
    /\ Len(req[r].videos) > 0
    /\ EndsWith(req[r].response, S_At \o S_Url \o Shroud)


\* C20: getTwitchUser, getCurrentStream and getRecentVideos of the enhanced
\* variant turn a transport failure or a JSON parse failure of the resource
\* request into null / [], so that the route handler never observes a
\* rejected promise from them (its catch block never runs on their account).
C20_EnhancedFailSoft ==
  \A r \in DOMAIN req :
    /\ req[r].from # "fallback"
    /\ req[r].failed = {}


(***************************************************************************)
(* Resolver: threshold, degradation, result shapes, ordering               *)
(***************************************************************************)
\* an archive record not shorter than 30 minutes without a denylist keyword
QualifiesByDuration(video) ==
  /\ video.type = Archive
  /\ IsIsoDuration(video.duration)
  /\ ~ShorterThan30Min(video)
  /\ ~TitleDenylisted(video)

\* C16: when steps 1 and 2 are inconclusive, the first archive record whose
\* duration is not shorter than 30 minutes (total minutes >= 30, PT30M and
\* PT30M59S included) and whose title has no denylist keyword makes
\* getLastPlayedGame return "games".
C16_ThresholdBoundary ==
  \A r \in DOMAIN req :
    ( /\ Done(r) /\ req[r].from = "step3"
      /\ \E i \in DOMAIN req[r].videos : QualifiesByDuration(req[r].videos[i]) ) =>
      req[r].game = Games


\* the category of a stream or channel record that names one, else null
NamedCategory(x) ==
  IF x # <<>> /\ x[1].game_name \notin {<<>>, Null, Undefined, JustChatting}
  THEN x[1].game_name ELSE Null

\* C17: a failure of a single upstream lookup inside getLastPlayedGame counts
\* as absence of data and the chain continues: if the stream lookup fails
\* and ChannelInfo returns a category C other than "Just Chatting" the result
\* is C; if the stream and channel lookups fail and the history holds a
\* record that qualifies in step 3 the result is "games"; if all three fail
\* the result is null; an exception never leaves getLastPlayedGame.
C17_GracefulDegradation ==
  \A r \in DOMAIN req :
    (Done(r) /\ req[r].user # <<>>) =>
      /\ req[r].from \in {"step1", "step2", "step3"}
      /\ ("streams" \in req[r].failed /\ NamedCategory(req[r].channel) # Null) =>
           req[r].game = NamedCategory(req[r].channel) /\ req[r].from = "step2"
      /\ ( /\ {"streams", "channels"} \subseteq req[r].failed
           /\ \E i \in DOMAIN req[r].videos : VideoQualifies(req[r].videos[i]) ) =>
           req[r].game = Games /\ req[r].from = "step3"
      /\ {"streams", "channels", "videos"} \subseteq req[r].failed =>
           req[r].game = Null /\ req[r].from = "step3"

\* both the stream and the channel lookup failed and the history decided
C17_Witness ==
  \E r \in DOMAIN req :
    /\ Done(r)
    /\ req[r].failed = {"streams", "channels"}
    /\ req[r].game = Games
    /\ req[r].from = "step3"


\* the three sentences of the main route
SpecificSentence(u, c) ==
  <<"C","h","e","c","k"," ","o","u","t"," ">> \o u \o <<","," ","t","h","e","y"," ","a","r","e"," ","p","l","a","y","i","n","g"," ">> \o c
    \o <<" ","a","t"," ","h","t","t","p","s",":","/","/","t","w","i","t","c","h",".","t","v","/">> \o u \o <<"!">>
GenericSentence(u) ==
  <<"C","h","e","c","k"," ","o","u","t"," ">> \o u \o <<","," ","g","r","e","a","t"," ","g","a","m","i","n","g"," ","c","o","n","t","e","n","t"," ","a","t"," ","h","t","t","p","s",":","/","/","t","w","i","t","c","h",".","t","v","/">> \o u \o <<"!">>
PlainSentence(u) ==
  <<"C","h","e","c","k"," ","o","u","t"," ">> \o u \o <<" ","a","t"," ","h","t","t","p","s",":","/","/","t","w","i","t","c","h",".","t","v","/">> \o u \o <<"!">>

\* C18: the three result shapes stay distinguishable up to the message: for
\* every category name the platform returns from the live stream or the
\* channel info (steps 1 and 2) the main route sends the specific sentence
\* naming that category; the generic gaming sentence is sent only when the
\* result came from step 3, the plain sentence only when the result is null.
C18_ShapesDistinguishable ==
  \A r \in DOMAIN req :
    (Done(r) /\ req[r].user # <<>>) =>
      LET u == req[r].username
      IN /\ req[r].from \in {"step1", "step2"} =>
              req[r].response = SpecificSentence(u, req[r].game)
         /\ req[r].response = GenericSentence(u) => req[r].from = "step3"
         /\ req[r].response = PlainSentence(u) => req[r].game = Null


\* in this step request r begins the lookup of step s
Begins(r, s) ==
  /\ req'[r].step = s /\ req'[r].pc \in {"token", "api"}
  /\ ~(req[r].step = s /\ req[r].pc \in {"token", "api"})

\* in this step the GET of lookup s is sent for request r
SendsGet(r, s) ==
  /\ req'[r].step = s /\ req'[r].pc = "api"
  /\ ~(req[r].step = s /\ req[r].pc = "api")

\* C19: within one getLastPlayedGame call the channel-info lookup is issued
\* only after the stream lookup has completed inconclusively, the
\* broadcast-history lookup only after both have completed inconclusively,
\* and each lookup is issued at most once; when ChannelInfo's category is
\* present and not "Just Chatting" the result is that category and the
\* broadcast history is never fetched.
C19_SequentialOrder ==
  [][ \A r \in DOMAIN req :
        /\ Begins(r, "channels") =>
             /\ req[r].step = "streams"
             /\ NamedCategory(req'[r].stream) = Null
        /\ Begins(r, "videos") =>
             /\ req[r].step = "channels"
             /\ NamedCategory(req'[r].stream) = Null
             /\ NamedCategory(req'[r].channel) = Null
        /\ \A s \in Steps : SendsGet(r, s) => s \notin req[r].called
        /\ (req'[r].pc = "done" /\ req'[r].user # <<>> /\ NamedCategory(req'[r].stream) = Null
              /\ NamedCategory(req'[r].channel) # Null) =>
             /\ req'[r].game = NamedCategory(req'[r].channel)
             /\ "videos" \notin req'[r].called
             /\ req'[r].videos = <<>> ]_vars

\* the channel info named a category after the stream lookup found nothing
C19_Witness ==
  \E r \in DOMAIN req :
    /\ Done(r)
    /\ req[r].called = {"users", "streams", "channels"}
    /\ req[r].stream = <<>>
    /\ req[r].game = Valorant
    /\ req[r].from = "step2"


(***************************************************************************)
(* Token cache under concurrency                                           *)
(***************************************************************************)
\* in this step request r, waiting inside getTwitchToken, receives the
\* credential-exchange response out and both cache fields are taken from it
PairedUpdate(r, out) ==
  /\ req[r].pc = "token"
  /\ req'[r].pc # "token"
  /\ out.kind \notin {"error", "badjson"}
  /\ twitchToken' = out.access_token
  /\ tokenExpiry' = IF out.has_expires_in THEN now + out.expires_in * 1000 - 60000
                                          ELSE NaN

\* C21: for any interleaving of concurrent requests and any order in which
\* overlapping refresh responses arrive, twitchToken and tokenExpiry come
\* from the same credential-exchange response: they are updated together,
\* never one without the other, and only getTwitchToken changes them.
C21_TokenExpiryPaired ==
  [][ \/ UNCHANGED <<twitchToken, tokenExpiry>>
      \/ \E r \in DOMAIN req, out \in TokenOutcomes : PairedUpdate(r, out) ]_vars

\* two refreshes overlapped and the response that arrived last is cached
C21_Witness ==
  /\ now = 0
  /\ twitchToken = TokB
  /\ tokenExpiry = 0
  /\ idRequests = 2
  /\ \E r1, r2 \in DOMAIN req :
       /\ req[r1].pc = "api" /\ req[r1].bearer = TokA
       /\ req[r2].pc = "api" /\ req[r2].bearer = TokB


(***************************************************************************)
(* Frame of a rejected request, and the number of responses                *)
(***************************************************************************)
\* C22: a main-route request whose username is empty or fails the pattern
\* issues no request to the identity endpoint or the platform API and
\* leaves twitchToken and tokenExpiry unchanged.
C22_ValidationNoUpstream ==
  \A r \in DOMAIN req :
    (req[r].pc # "idle" /\ ~MatchesPattern(req[r].username)) =>
      /\ Done(r)
      /\ req[r].response \in {MsgProvide, MsgInvalid}
      /\ req[r].called = {}
      /\ req[r].failed = {}
      /\ idRequests = 0
      /\ twitchToken = Null
      /\ tokenExpiry = 0

\* a username of word characters that is too short was turned down
C22_Witness ==
  \E r \in DOMAIN req :
    /\ Done(r)
    /\ Len(req[r].username) = 3
    /\ \A i \in DOMAIN req[r].username : req[r].username[i] \in WordChars
    /\ req[r].response = MsgInvalid
    /\ idRequests = 0


\* request 1 has arrived and waits for an upstream request
Pending == req[1].pc \in {"token", "api"}

\* exactly one response was sent for request 1, one of the route's messages
AnsweredOnce ==
  /\ req[1].pc = "done"
  /\ req[1].sent = 1
  /\ \/ req[1].response \in {MsgProvide, MsgInvalid}
     \/ req[1].response = NotFoundMessage(req[1].username)
     \/ Includes(req[1].response, S_CheckOut \o req[1].username)

\* C23: when every issued upstream request completes in the end with a
\* response or an error, every main-route request sends in the end exactly
\* one response (validation message, not-found message, shoutout or
\* fallback) on every path, and never sends a second one.
C23_AnsweredExactlyOnce ==
  /\ [](req[1].pc = "idle" \/ Pending \/ AnsweredOnce)
  /\ [](Pending => req[1].sent = 0)
  /\ [][AnsweredOnce => UNCHANGED req]_vars
  /\ Pending ~> AnsweredOnce

\* the request went through all four lookups and was answered once
C23_Witness ==
  /\ AnsweredOnce
  /\ req[1].called = {"users", "streams", "channels", "videos"}
  /\ req[1].from = "step3"

====
